---- MODULE Spec2Model ----
(***************************************************************************)
(* buttond: evdev button daemon.  A model of the per-key state machine     *)
(* (handle_key), the timeout scheduler (compute_timeout, handle_timeouts), *)
(* the action matcher (action_match, find_key_action) and the dispatch     *)
(* loop of main(), with the time arithmetic the loop relies on.            *)
(*                                                                         *)
(* Timestamps are records as in C: a timeval is [tv_sec, tv_usec], a       *)
(* timespec is [tv_sec, tv_nsec].  C's `/` and `%` truncate toward zero;   *)
(* CDiv and CMod give them that meaning.                                   *)
(***************************************************************************)
EXTENDS Integers, Sequences, FiniteSets, TLC

\* ------------------------------------------------------------- constants
NSECS_IN_SEC == 1000000000
NSECS_IN_MSEC == 1000000
NSECS_IN_USEC == 1000
USECS_IN_SEC == 1000000
USECS_IN_MSEC == 1000
DEFAULT_LONG_PRESS_MSECS == 5000
DEFAULT_SHORT_PRESS_MSECS == 1000
DEBOUNCE_MSECS == 10

\* enum type / enum key_state
LONG_PRESS == "LONG_PRESS"
SHORT_PRESS == "SHORT_PRESS"
KEY_RELEASED == "KEY_RELEASED"
KEY_PRESSED == "KEY_PRESSED"
KEY_DEBOUNCE == "KEY_DEBOUNCE"
KEY_HANDLED == "KEY_HANDLED"

\* C integer division and remainder (b > 0): truncation toward zero.
CDiv(a, b) == IF a >= 0 THEN a \div b ELSE -((-a) \div b)
CMod(a, b) == a - b * CDiv(a, b)

\* ------------------------------------------------------- time arithmetic
\* time difference in msecs
time_diff_ts(ts1, ts2) ==
    CDiv(ts1.tv_nsec - ts2.tv_nsec, NSECS_IN_MSEC)
        + (ts1.tv_sec - ts2.tv_sec) * 1000

time_diff_tv(tv1, tv2) ==
    CDiv(tv1.tv_usec - tv2.tv_usec, USECS_IN_MSEC)
        + (tv1.tv_sec - tv2.tv_sec) * 1000

\* convert timeval to timespec and add offset msec
time_tv2ts(base, msec) ==
    LET nsec == base.tv_usec * NSECS_IN_USEC + msec * NSECS_IN_MSEC
    IN  [tv_sec |-> base.tv_sec + CDiv(nsec, NSECS_IN_SEC),
         tv_nsec |-> CMod(nsec, NSECS_IN_SEC)]

\* convert timespec to timeval and add offset msec
time_ts2tv(base, msec) ==
    LET usec == CDiv(base.tv_nsec, NSECS_IN_USEC) + msec * USECS_IN_MSEC
    IN  [tv_sec |-> base.tv_sec + CDiv(usec, USECS_IN_SEC),
         tv_usec |-> CMod(usec, USECS_IN_SEC)]

\* add offset msec to a timespec, carrying into the seconds
time_add_ts(ts, msec) ==
    LET nsec == ts.tv_nsec + msec * NSECS_IN_MSEC
    IN  [tv_sec |-> ts.tv_sec + CDiv(nsec, NSECS_IN_SEC),
         tv_nsec |-> CMod(nsec, NSECS_IN_SEC)]

\* ---------------------------------------------------------------- state
VARIABLES
    clock,      \* index of the current instant of CLOCK_MONOTONIC in Grid
    keys,       \* the key table: a sequence of struct key
    fds,        \* per input file, the event records written and not yet read
    pc,         \* position of main()'s dispatch loop
    timeout,    \* the value compute_timeout returned for the current poll
    tpoll,      \* clock reading when poll was entered, then when it returned
    revents,    \* pollfd[i].revents as poll returned them
    fdi,        \* loop index i over the input files
    late,       \* whether the process may be delayed between any two steps
    dev,        \* the devices: whether each one's button is down, and the
                \* events produced so far
    hist,       \* what the handlers did to each key (observation only)
    loop,       \* what the current turn of the loop did (observation only)
    probe,      \* a pure function's arguments and result; "none" while the
                \* daemon runs
    io          \* test_mode, input_files[], pollfd[].fd and the exit status

vars == <<clock, keys, fds, pc, timeout, tpoll, revents, fdi, late, dev, hist,
          loop, probe, io>>

\* --------------------------------------------------------------- bounds
\* Instants of CLOCK_MONOTONIC the model samples, in nanoseconds since boot:
\* they straddle a seconds boundary and lie whole and half milliseconds
\* apart.  The trigger times of Configs are tens of milliseconds so that
\* every sum of nanoseconds stays within TLC's integers; the time helpers
\* are computed in C's long (64 bits).
Grid ==
    <<  995000000, 1000000000, 1000500000, 1003000000, 1010000000,
       1045000000, 1049500000, 1050000000, 1055000000, 1095000000,
       1100000000 >>
MaxEvents == 4      \* events the devices produce in one run
MaxQueue == 2       \* event records a descriptor holds unread

\* pollfd[0..input_count-1]: the -i options of the modelled command line
Inputs == {1, 2}

\* struct timespec of a number of nanoseconds
TS(ns) == [tv_sec |-> ns \div NSECS_IN_SEC, tv_nsec |-> ns % NSECS_IN_SEC]

\* clock_gettime(CLOCK_MONOTONIC)
time_gettime == TS(Grid[clock])

\* -------------------------------------------------------- configuration
KeyCode == 28
Action(type, trigger_time, action) ==
    [type |-> type, trigger_time |-> trigger_time, action |-> action]

\* the action lists main() leaves after sort_actions, for some option lists
CfgShort == << Action(SHORT_PRESS, DEFAULT_SHORT_PRESS_MSECS, "short") >>
CfgShortLong ==
    << Action(SHORT_PRESS, 20, "short"), Action(LONG_PRESS, 50, "long") >>
CfgTiers ==
    << Action(LONG_PRESS, 50, "long1"), Action(LONG_PRESS, 100, "long2") >>
CfgLongBelowShort ==
    << Action(SHORT_PRESS, 100, "short"), Action(LONG_PRESS, 50, "long") >>
Configs == { CfgShort, CfgShortLong, CfgTiers, CfgLongBelowShort }

ZeroTv == [tv_sec |-> 0, tv_usec |-> 0]
ZeroTs == [tv_sec |-> 0, tv_nsec |-> 0]

\* a key as main() creates it: memset 0, code, KEY_RELEASED, its actions
NewKey(code, actions) ==
    [code |-> code,
     has_wakeup |-> FALSE,
     action_count |-> Len(actions),
     actions |-> actions,
     tv_pressed |-> ZeroTv,
     tv_released |-> ZeroTv,
     ts_wakeup |-> ZeroTs,
     state |-> KEY_RELEASED]

\* ------------------------------------------------------ key state machine
\* key_press that stamps tv_pressed at every press, also one in KEY_DEBOUNCE
key_press_restamped(event, key) ==
    LET k2 == [key EXCEPT !.tv_pressed = event.time, !.state = KEY_PRESSED]
        action == k2.actions[k2.action_count]
    IN  IF action.type = LONG_PRESS
        THEN [k2 EXCEPT !.has_wakeup = TRUE,
                        !.ts_wakeup = time_tv2ts(k2.tv_pressed,
                                                 action.trigger_time)]
        ELSE [k2 EXCEPT !.has_wakeup = FALSE]

\* KEY_RELEASED / KEY_DEBOUNCE, value != 0: a press is accepted
key_press(event, key) ==
    LET k1 == IF key.state = KEY_RELEASED
              THEN [key EXCEPT !.tv_pressed = event.time]
              ELSE key
        k2 == [k1 EXCEPT !.state = KEY_PRESSED]
        action == k2.actions[k2.action_count]
    IN  IF action.type = LONG_PRESS
        THEN [k2 EXCEPT !.has_wakeup = TRUE,
                        !.ts_wakeup = time_tv2ts(k2.tv_pressed,
                                                 action.trigger_time)]
        ELSE [k2 EXCEPT !.has_wakeup = FALSE]

\* key_release that counts the debounce from the press
key_release_from_press(event, key) ==
    [key EXCEPT !.state = KEY_DEBOUNCE,
                !.tv_released = event.time,
                !.has_wakeup = TRUE,
                !.ts_wakeup = time_tv2ts(key.tv_pressed, DEBOUNCE_MSECS)]

\* KEY_PRESSED, value == 0: mark key for debounce
key_release(event, key) ==
    [key EXCEPT !.state = KEY_DEBOUNCE,
                !.tv_released = event.time,
                !.has_wakeup = TRUE,
                !.ts_wakeup = time_add_ts(time_gettime, DEBOUNCE_MSECS)]

\* handle_key that takes a press record in KEY_PRESSED for a new press
handle_key_repress(event, key) ==
    CASE key.state \in {KEY_RELEASED, KEY_DEBOUNCE} ->
            IF event.value = 0 THEN key ELSE key_press(event, key)
      [] key.state = KEY_PRESSED ->
            IF event.value # 0
            THEN key_press(event, [key EXCEPT !.state = KEY_RELEASED])
            ELSE key_release(event, key)
      [] key.state = KEY_HANDLED ->
            IF event.value # 0 THEN key
            ELSE [key EXCEPT !.state = KEY_RELEASED]

handle_key(event, key) ==
    CASE key.state \in {KEY_RELEASED, KEY_DEBOUNCE} ->
            IF event.value = 0 THEN key ELSE key_press(event, key)
      [] key.state = KEY_PRESSED ->
            IF event.value # 0 THEN key ELSE key_release(event, key)
      [] key.state = KEY_HANDLED ->
            IF event.value # 0 THEN key
            ELSE [key EXCEPT !.state = KEY_RELEASED]

\* ----------------------------------------------------------- the matcher
\* action_match whose Short test lets elapsed = trigger_time through
action_match_inclusive(action, time) ==
    CASE action.type = LONG_PRESS -> time >= action.trigger_time
      [] action.type = SHORT_PRESS -> time <= action.trigger_time

action_match(action, time) ==
    CASE action.type = LONG_PRESS -> time >= action.trigger_time
      [] action.type = SHORT_PRESS -> time < action.trigger_time

\* find_key_action that walks the action list from its first entry
RECURSIVE find_up(_, _, _)
find_up(key, time, i) ==
    IF i > key.action_count THEN 0
    ELSE IF action_match(key.actions[i], time) THEN i
    ELSE find_up(key, time, i + 1)

find_key_action_first(key, time) == find_up(key, time, 1)

\* index of the action found (C index + 1), 0 for NULL
RECURSIVE find_from(_, _, _)
find_from(key, time, i) ==
    IF i < 1 THEN 0
    ELSE IF action_match(key.actions[i], time) THEN i
    ELSE find_from(key, time, i - 1)

find_key_action(key, time) == find_from(key, time, key.action_count)

\* ------------------------------------------------------------- scheduler
\* compute_timeout that takes the first wakeup of the table for the nearest
RECURSIVE first_timeout(_, _, _)
first_timeout(ks, ts, i) ==
    IF i > Len(ks) THEN -1
    ELSE IF ks[i].has_wakeup
    THEN LET diff == time_diff_ts(ks[i].ts_wakeup, ts)
         IN  IF diff < 0 THEN 0 ELSE diff
    ELSE first_timeout(ks, ts, i + 1)

compute_timeout_first(ks, ts) == first_timeout(ks, ts, 1)

RECURSIVE timeout_from(_, _, _, _)
timeout_from(ks, ts, i, timeout_) ==
    IF i > Len(ks) THEN timeout_
    ELSE IF ks[i].has_wakeup
    THEN LET diff == time_diff_ts(ks[i].ts_wakeup, ts)
         IN  IF diff < 0 THEN timeout_from(ks, ts, i + 1, 0)
             ELSE IF timeout_ = -1 \/ diff < timeout_
             THEN timeout_from(ks, ts, i + 1, diff)
             ELSE timeout_from(ks, ts, i + 1, timeout_)
    ELSE timeout_from(ks, ts, i + 1, timeout_)

compute_timeout(ks, ts) == timeout_from(ks, ts, 1, -1)

\* a test that only sees a wakeup at the very instant it runs out
wakeup_expired_exact(key, ts) ==
    key.has_wakeup /\ time_diff_ts(key.ts_wakeup, ts) = 0

\* the test handle_timeouts makes of keys[i]
wakeup_expired(key, ts) ==
    key.has_wakeup /\ time_diff_ts(key.ts_wakeup, ts) <= 0

\* key still pressed - set artifical release time
wakeup_released(key, ts) ==
    IF key.state # KEY_DEBOUNCE
    THEN [key EXCEPT !.tv_released = time_ts2tv(ts, 0)]
    ELSE key

wakeup_diff(key, ts) ==
    LET k == wakeup_released(key, ts)
    IN  time_diff_tv(k.tv_released, k.tv_pressed)

\* index of the action handle_timeouts runs for an expired key, 0 for none
wakeup_action(key, ts) ==
    find_key_action(wakeup_released(key, ts), wakeup_diff(key, ts))

\* handle_timeouts that forgets KEY_HANDLED: a key that is still held
\* stays in KEY_PRESSED
wakeup_key_unhandled(key, ts) ==
    [wakeup_released(key, ts) EXCEPT
        !.has_wakeup = FALSE,
        !.state = IF key.state = KEY_DEBOUNCE THEN KEY_RELEASED ELSE @]

\* handle_timeouts that leaves has_wakeup set
wakeup_key_armed(key, ts) ==
    [wakeup_released(key, ts) EXCEPT
        !.state = IF key.state = KEY_DEBOUNCE THEN KEY_RELEASED
                  ELSE KEY_HANDLED]

wakeup_key(key, ts) ==
    [wakeup_released(key, ts) EXCEPT
        !.has_wakeup = FALSE,
        !.state = IF key.state = KEY_DEBOUNCE THEN KEY_RELEASED
                  ELSE KEY_HANDLED]

handle_timeouts(ks, ts) ==
    [i \in 1..Len(ks) |->
        IF wakeup_expired(ks[i], ts) THEN wakeup_key(ks[i], ts) ELSE ks[i]]

\* ------------------------------------------------------------ input path
POLLIN == "POLLIN"

\* index of the key configured for code, 0 for NULL
RECURSIVE key_from(_, _, _)
key_from(ks, code, i) ==
    IF i > Len(ks) THEN 0
    ELSE IF ks[i].code = code THEN i
    ELSE key_from(ks, code, i + 1)

\* handle_input_event without the test of the record's type
handle_input_event_any_type(event, ks) ==
    LET k == key_from(ks, event.code, 1)
    IN  IF k = 0 THEN ks
        ELSE [ks EXCEPT ![k] = handle_key(event, ks[k])]

handle_input_event(event, ks) ==
    IF event.type # 1 THEN ks
    ELSE LET k == key_from(ks, event.code, 1)
         IN  IF k = 0 THEN ks
             ELSE [ks EXCEPT ![k] = handle_key(event, ks[k])]

\* handle_input with every read succeeding: the records of the descriptor
\* are handled in the order they were written
RECURSIVE handle_input(_, _)
handle_input(events, ks) ==
    IF events = <<>> THEN ks
    ELSE handle_input(Tail(events), handle_input_event(Head(events), ks))

\* sizeof(struct input_event)
EventSize == 24
\* what can be wrong with an input file: its other end hung up, its next
\* read fails, or it holds a part of a record after the whole ones
NoFault == "none"
Faults == {"hup", "err", "partial"}

\* what the first read_safe of handle_input returns for a descriptor that
\* holds the records events: the bytes read, or -errno (here -EIO)
read_safe(events, fault) ==
    CASE fault = "err" -> -5
      [] fault = "partial" -> Len(events) * EventSize + 8
      [] OTHER -> Len(events) * EventSize

\* the records handle_input passes to handle_input_event
input_records(events, fault) ==
    LET n == read_safe(events, fault)
    IN  IF n > 0 /\ n % EventSize = 0 THEN events ELSE <<>>

\* handle_input's return value is not 0
input_failed(events, fault) ==
    LET n == read_safe(events, fault)
    IN  (n > 0 /\ n % EventSize # 0) \/ n < 0

\* reopen_input(&input_files[i], &pollfd[i], ...): the descriptor of slot i
\* is closed and the file's path opened again into the same slot
reopen_input(files, i) ==
    [files EXCEPT !.fd[i] = @ + 1, !.opened[i] = files.filename[i]]

\* ----------------------------------------------------------- observation
\* nanoseconds / microseconds since boot of a timespec / timeval
NsecOfTs(ts) == ts.tv_sec * NSECS_IN_SEC + ts.tv_nsec
UsecOfTv(tv) == tv.tv_sec * USECS_IN_SEC + tv.tv_usec

\* the records of code k's that are written and not yet read
Unread(q, code) ==
    { e \in UNION { { q[i][j] : j \in 1..Len(q[i]) } : i \in DOMAIN q } :
        e.type = 1 /\ e.code = code }

NoHist ==
    [nmatch |-> 0,        \* calls of find_key_action for the key
     ncmd |-> 0,          \* commands run for the key
     diff |-> 0,          \* the last call's time argument
     act |-> 0,           \* the action the last call returned, 0 for NULL
     from |-> "none",     \* the key's state when the last call was made
     quiet |-> TRUE,      \* no record of the key was unread at the last call
     stale |-> FALSE,     \* a release stamped before pressedAt + trigger_time
                          \* of the action run was unread at the last call
     bounced |-> FALSE,   \* the press in progress absorbed a release
     since |-> 0,         \* commands run since the key last left KEY_RELEASED
     hold |-> 0,          \* commands run in the hold in progress, where a
                          \* release and a press less than DEBOUNCE_MSECS
                          \* apart do not end a hold
     rel_time |-> ZeroTv, \* time of the last release record handled
     held_us |-> -1,      \* microseconds from tv_pressed to the release that
                          \* ended the last press, -1 before any
     short |-> FALSE]     \* the Short command was run for that press

\* what handle_timeouts does to key k at clock reading ts
hist_timeouts(h, ks, q, ts) ==
    [k \in DOMAIN h |->
        IF wakeup_expired(ks[k], ts)
        THEN LET a == wakeup_action(ks[k], ts)
                 ran == IF a # 0 THEN 1 ELSE 0
             IN [h[k] EXCEPT
                !.nmatch = @ + 1,
                !.ncmd = @ + ran,
                !.since = @ + ran,
                !.hold = @ + ran,
                !.diff = wakeup_diff(ks[k], ts),
                !.act = a,
                !.from = ks[k].state,
                !.quiet = Unread(q, ks[k].code) = {},
                !.stale =
                    /\ a # 0
                    /\ ks[k].actions[a].type = LONG_PRESS
                    /\ \E e \in Unread(q, ks[k].code) :
                        /\ e.value = 0
                        /\ UsecOfTv(e.time) * NSECS_IN_USEC <
                             NsecOfTs(time_tv2ts(ks[k].tv_pressed,
                                        ks[k].actions[a].trigger_time)),
                !.held_us =
                    IF ks[k].state = KEY_DEBOUNCE
                    THEN UsecOfTv(ks[k].tv_released)
                            - UsecOfTv(ks[k].tv_pressed)
                    ELSE @,
                !.short =
                    IF ks[k].state = KEY_DEBOUNCE
                    THEN a # 0 /\ ks[k].actions[a].type = SHORT_PRESS
                    ELSE @]
        ELSE h[k]]

\* a wakeup that had run out when poll returned (clock reading tret) is
\* still armed in ks
missed_wakeup(ks, tret) ==
    \E k \in DOMAIN ks :
        ks[k].has_wakeup /\ NsecOfTs(ks[k].ts_wakeup) <= NsecOfTs(tret)

\* what handle_key does to the key whose observation is h
hist_key(h, event, key) ==
    LET pressed == key.state \in {KEY_RELEASED, KEY_DEBOUNCE}
                        /\ event.value # 0
        fresh == pressed /\ key.state = KEY_RELEASED
        newhold == fresh /\ ~(UsecOfTv(event.time) - UsecOfTv(h.rel_time)
                                < DEBOUNCE_MSECS * USECS_IN_MSEC)
    IN  [h EXCEPT
            !.bounced = IF fresh THEN FALSE
                        ELSE IF pressed THEN TRUE ELSE @,
            !.since = IF fresh THEN 0 ELSE @,
            !.hold = IF newhold THEN 0 ELSE @,
            !.rel_time = IF event.value = 0 THEN event.time ELSE @,
            !.held_us = IF key.state = KEY_HANDLED /\ event.value = 0
                        THEN UsecOfTv(event.time) - UsecOfTv(key.tv_pressed)
                        ELSE @,
            !.short = IF key.state = KEY_HANDLED /\ event.value = 0
                      THEN FALSE ELSE @]

RECURSIVE hist_input(_, _, _)
hist_input(h, events, ks) ==
    IF events = <<>> THEN h
    ELSE LET e == Head(events)
             k == IF e.type = 1 THEN key_from(ks, e.code, 1) ELSE 0
         IN  hist_input(
                IF k = 0 THEN h ELSE [h EXCEPT ![k] = hist_key(h[k], e, ks[k])],
                Tail(events), handle_input_event(e, ks))

\* ---------------------------------------------------------------- actions
\* the revents poll reports for input file i
poll_revents(i) ==
    IF dev.fault[i] = "hup"
    THEN IF fds[i] # <<>> THEN "POLLIN|POLLHUP" ELSE "POLLHUP"
    ELSE IF fds[i] # <<>> \/ dev.fault[i] # NoFault THEN POLLIN
    ELSE "0"

Ready == { i \in Inputs : poll_revents(i) # "0" }

\* poll's timeout has run out
TimedOut ==
    timeout >= 0 /\ Grid[clock] - Grid[tpoll] >= timeout * NSECS_IN_MSEC

\* the events of testable property P1, in milliseconds after the first one
P1Script ==
    << [dt |-> 0, value |-> 1], [dt |-> 5, value |-> 0],
       [dt |-> 8, value |-> 1], [dt |-> 50, value |-> 0] >>

\* how far the events produced so far follow P1Script (-1: they do not),
\* given that n of them did, the first at t0, and one more is produced
script_next(n, t0, event) ==
    IF n >= 0 /\ n < Len(P1Script)
       /\ event.value = P1Script[n + 1].value
       /\ UsecOfTv(event.time) - UsecOfTv(IF n = 0 THEN event.time ELSE t0)
            = P1Script[n + 1].dt * USECS_IN_MSEC
    THEN n + 1
    ELSE -1

NoLoop == [ran |-> FALSE, missed |-> FALSE]
NoProbe == [op |-> "none"]

\* the input files as main() leaves them before the loop: each path opened
\* once into its pollfd slot
InputFiles(mode) ==
    [test_mode |-> mode,
     filename |-> [i \in Inputs |-> i],
     opened |-> [i \in Inputs |-> i],
     fd |-> [i \in Inputs |-> 1],
     \* why each slot was last reopened (observation only)
     cause |-> [i \in Inputs |-> "none"],
     exited |-> FALSE,
     status |-> 0]

\* the daemon starts: every key KEY_RELEASED, nothing written to the inputs;
\* the devices will produce at most n events and nf faults, and --test_mode
\* was given or not as modes says
BootIO(l, devices, configs, n, nf, modes) ==
    /\ clock = 1
    /\ keys \in { << NewKey(KeyCode, c) >> : c \in configs }
    /\ fds = [i \in Inputs |-> <<>>]
    /\ pc = "compute"
    /\ timeout = -1
    /\ tpoll = 1
    /\ revents = [i \in Inputs |-> "0"]
    /\ fdi = 1
    /\ late = l
    /\ dev = [set |-> devices, down |-> [i \in Inputs |-> FALSE],
              n |-> 0, max |-> n, at |-> 0, t0 |-> ZeroTv, script |-> 0,
              fault |-> [i \in Inputs |-> NoFault],
              faults |-> 0, maxfaults |-> nf]
    /\ hist = [k \in 1..1 |-> NoHist]
    /\ loop = NoLoop
    /\ io \in { InputFiles(mode) : mode \in modes }

\* the input files stay sound and --test_mode is not given
BootWith(l, devices, configs, n) ==
    BootIO(l, devices, configs, n, 0, {FALSE})

Boot(l, devices, configs) == BootWith(l, devices, configs, MaxEvents)

InitWith(l, devices) == Boot(l, devices, Configs) /\ probe = NoProbe

\* time passes.  A prompt process is only ever waiting in poll, which
\* returns as soon as a descriptor is readable or its timeout has run out.
Tick ==
    /\ probe = NoProbe
    /\ clock < Len(Grid)
    /\ late \/ (pc = "poll" /\ Ready = {} /\ ~TimedOut)
    /\ clock' = clock + 1
    /\ UNCHANGED <<keys, fds, pc, timeout, tpoll, revents, fdi, late, dev,
                   hist, loop, probe, io>>

\* the button of device i goes down or up: the kernel queues a key event
\* stamped with the monotonic clock (EVIOCSCLOCKID); or the input file
\* goes wrong
DevEvent(i) ==
    /\ probe = NoProbe
    /\ i \in dev.set
    /\ late \/ pc = "poll"
    /\ dev.fault[i] = NoFault
    /\ \/ /\ dev.n < dev.max
          /\ dev.at < clock
          /\ Len(fds[i]) < MaxQueue
          /\ LET event == [time |-> time_ts2tv(time_gettime, 0), type |-> 1,
                           code |-> KeyCode,
                           value |-> IF dev.down[i] THEN 0 ELSE 1]
             IN  /\ fds' = [fds EXCEPT ![i] = Append(@, event)]
                 /\ dev' = [dev EXCEPT
                              !.down[i] = ~@, !.n = @ + 1, !.at = clock,
                              !.t0 = IF dev.n = 0 THEN event.time ELSE @,
                              !.script = script_next(@, dev.t0, event)]
       \/ /\ dev.faults < dev.maxfaults
          /\ \E f \in Faults :
                dev' = [dev EXCEPT !.fault[i] = f, !.faults = @ + 1]
          /\ fds' = fds
    /\ UNCHANGED <<clock, keys, pc, timeout, tpoll, revents, fdi, late, hist,
                   loop, probe, io>>

\* int timeout = compute_timeout(keys, key_count); poll(...) is entered
ComputeTimeout ==
    /\ probe = NoProbe
    /\ pc = "compute"
    /\ timeout' = compute_timeout(keys, time_gettime)
    /\ tpoll' = clock
    /\ pc' = "poll"
    /\ UNCHANGED <<clock, keys, fds, revents, fdi, late, dev, hist, loop,
                   probe, io>>

\* a loop that runs handle_timeouts only when poll timed out
PollReturnNoTimeouts ==
    /\ probe = NoProbe
    /\ pc = "poll"
    /\ \/ /\ Ready # {}
          /\ revents' = [i \in Inputs |-> poll_revents(i)]
          /\ pc' = "input"
       \/ /\ Ready = {}
          /\ TimedOut
          /\ revents' = [i \in Inputs |-> "0"]
          /\ pc' = "timeouts"
    /\ timeout' = -1
    /\ tpoll' = clock
    /\ UNCHANGED <<clock, keys, fds, fdi, late, dev, hist, loop, probe, io>>

\* poll returns n > 0 (descriptors readable) or n == 0 (timeout); the
\* timeout is not read again in this turn of the loop
PollReturn ==
    /\ probe = NoProbe
    /\ pc = "poll"
    /\ \/ /\ Ready # {}
          /\ revents' = [i \in Inputs |-> poll_revents(i)]
       \/ /\ Ready = {}
          /\ TimedOut
          /\ revents' = [i \in Inputs |-> "0"]
    /\ pc' = "timeouts"
    /\ timeout' = -1
    /\ tpoll' = clock
    /\ UNCHANGED <<clock, keys, fds, fdi, late, dev, hist, loop, probe, io>>

\* poll returns n < 0 with EINTR or EAGAIN: continue
PollInterrupted ==
    /\ probe = NoProbe
    /\ pc = "poll"
    /\ pc' = "compute"
    /\ timeout' = -1
    /\ tpoll' = 1
    /\ UNCHANGED <<clock, keys, fds, revents, fdi, late, dev, hist, loop,
                   probe, io>>

\* handle_timeouts(keys, key_count); if (n == 0) continue;
HandleTimeouts ==
    /\ probe = NoProbe
    /\ pc = "timeouts"
    /\ keys' = handle_timeouts(keys, time_gettime)
    /\ hist' = hist_timeouts(hist, keys, fds, time_gettime)
    /\ IF \A i \in Inputs : revents[i] = "0"
       THEN pc' = "compute" /\ loop' = NoLoop
       ELSE pc' = "input"
            /\ loop' = [ran |-> TRUE,
                        missed |-> missed_wakeup(keys', TS(Grid[tpoll]))]
    /\ fdi' = 1
    /\ tpoll' = 1
    /\ UNCHANGED <<clock, fds, timeout, revents, late, dev, probe, io>>

\* a loop that gives up on a descriptor that hung up in every mode
hangup_exits_always(files) == TRUE

\* if (test_mode) exit(0);
hangup_exits(files) == files.test_mode

\* one turn of the for loop over the input files; after the last one the
\* loop starts over and poll rewrites revents
HandleInput ==
    /\ probe = NoProbe
    /\ pc = "input"
    /\ IF revents[fdi] = "POLLHUP" /\ hangup_exits(io)
       THEN \* exit(0)
            /\ io' = [io EXCEPT !.exited = TRUE, !.status = 0]
            /\ pc' = "exit"
            /\ UNCHANGED <<keys, fds, hist, dev, fdi, revents, loop>>
       ELSE /\ \/ /\ revents[fdi] = "0"
                  /\ UNCHANGED <<keys, fds, hist, dev, io>>
               \/ /\ revents[fdi] = "POLLHUP"
                  \* reopen_input; handle_input finds the new descriptor
                  \* empty
                  /\ io' = [reopen_input(io, fdi) EXCEPT !.cause[fdi] = "hup"]
                  /\ fds' = [fds EXCEPT ![fdi] = <<>>]
                  /\ dev' = [dev EXCEPT !.fault[fdi] = NoFault]
                  /\ UNCHANGED <<keys, hist>>
               \/ /\ revents[fdi] \in {POLLIN, "POLLIN|POLLHUP"}
                  /\ LET records == input_records(fds[fdi], dev.fault[fdi])
                         failed == input_failed(fds[fdi], dev.fault[fdi])
                     IN  /\ keys' = handle_input(records, keys)
                         /\ hist' = hist_input(hist, records, keys)
                         /\ fds' = [fds EXCEPT ![fdi] = <<>>]
                         /\ io' = IF failed
                                  THEN [reopen_input(io, fdi) EXCEPT
                                            !.cause[fdi] = "read"]
                                  ELSE io
                         /\ dev' = IF failed
                                   THEN [dev EXCEPT !.fault[fdi] = NoFault]
                                   ELSE dev
            /\ IF fdi + 1 \in Inputs
               THEN fdi' = fdi + 1 /\ pc' = pc /\ revents' = revents
                                   /\ loop' = loop
               ELSE fdi' = 1 /\ pc' = "compute"
                             /\ revents' = [i \in Inputs |-> "0"]
                             /\ loop' = NoLoop
    /\ UNCHANGED <<clock, timeout, tpoll, late, probe>>

Next ==
    \/ Tick
    \/ \E i \in Inputs : DevEvent(i)
    \/ ComputeTimeout
    \/ PollReturn
    \/ PollInterrupted
    \/ HandleTimeouts
    \/ HandleInput

Init == InitWith(TRUE, {1})
InitPrompt == InitWith(FALSE, Inputs)

\* the process may be delayed anywhere (scheduling, a command that runs
\* long); one device produces events
Spec == Init /\ [][Next]_vars
\* the process is never delayed: every event is handled at its instant and
\* poll returns at the first instant of Grid at which its timeout has run
\* out; every device produces events
SpecPrompt == InitPrompt /\ [][Next]_vars

\* the loop keeps being scheduled: a step of main() that stays possible is
\* taken, and poll, which a signal may interrupt any number of times, does
\* return whenever it could again and again
LoopScheduled ==
    /\ WF_vars(ComputeTimeout)
    /\ SF_vars(PollReturn)
    /\ WF_vars(HandleTimeouts)
    /\ WF_vars(HandleInput)
\* the events and the action lists of the runs checked for progress: a
\* press and its release
FairEvents == 2
FairConfigs == { CfgShortLong, CfgTiers }
InitFair == BootWith(TRUE, {1}, FairConfigs, FairEvents) /\ probe = NoProbe
SpecFair == InitFair /\ [][Next]_vars /\ LoopScheduled


\* the events of the runs in which two devices report the same key code to
\* a process that may be delayed: a press and its release on one device
\* and a press on the other
RaceEvents == 3
InitRace == BootWith(TRUE, Inputs, {CfgShortLong}, RaceEvents) /\ probe = NoProbe
\* the process may be delayed anywhere, so records of both devices can be
\* unread when poll returns; main() then reads pollfd[0] before pollfd[1]
SpecRace == InitRace /\ [][Next]_vars


\* the faults and the events of the runs in which input files go wrong
MaxFaults == 2
FaultEvents == 1
InitFaults ==
    /\ BootIO(FALSE, Inputs, {CfgShortLong}, FaultEvents, MaxFaults, BOOLEAN)
    /\ probe = NoProbe
\* the process is never delayed; the input files hang up, fail to read or
\* deliver a part of a record; with and without --test_mode
SpecFaults == InitFaults /\ [][Next]_vars

\* ------------------------------------------------- the functions alone
\* the largest time argument tried, in milliseconds
MaxElapsed == 11000
\* the largest key table tried
MaxKeys == 3
\* the time arguments tried: every one below the small thresholds of
\* Configs, and the ones next to a whole second
SmallElapsed == 120
ElapsedTimes ==
    { t \in 0..MaxElapsed : t <= SmallElapsed \/ t % 1000 \in {0, 1, 999} }

\* the action lists of the default thresholds, and two tiers of Long actions
CfgDefault ==
    << Action(SHORT_PRESS, DEFAULT_SHORT_PRESS_MSECS, "short"),
       Action(LONG_PRESS, DEFAULT_LONG_PRESS_MSECS, "long") >>
CfgTiersSec ==
    << Action(LONG_PRESS, 5000, "long5"), Action(LONG_PRESS, 10000, "long10") >>
CfgShortTiers ==
    << Action(SHORT_PRESS, DEFAULT_SHORT_PRESS_MSECS, "short"),
       Action(LONG_PRESS, 5000, "long5"), Action(LONG_PRESS, 10000, "long10") >>
ProbeConfigs == Configs \cup { CfgDefault, CfgTiersSec, CfgShortTiers }

\* the instant the probed key was pressed at
PressedAt == [tv_sec |-> 1, tv_usec |-> 0]

\* PressedAt plus msec, as a timeval and as a timespec
tv_after(msec) ==
    [tv_sec |-> PressedAt.tv_sec + msec \div 1000,
     tv_usec |-> (msec % 1000) * USECS_IN_MSEC]
ts_after(msec) ==
    [tv_sec |-> PressedAt.tv_sec + msec \div 1000,
     tv_nsec |-> (msec % 1000) * NSECS_IN_MSEC]

\* a key released msec after its press, in debounce
ReleasedKey(actions, msec) ==
    [NewKey(KeyCode, actions) EXCEPT
        !.state = KEY_DEBOUNCE,
        !.tv_pressed = PressedAt,
        !.tv_released = tv_after(msec),
        !.has_wakeup = TRUE,
        !.ts_wakeup = ts_after(msec + DEBOUNCE_MSECS)]

\* a key held since its press, its last action a Long one
HeldKey(actions) ==
    [NewKey(KeyCode, actions) EXCEPT
        !.state = KEY_PRESSED,
        !.tv_pressed = PressedAt,
        !.has_wakeup = TRUE,
        !.ts_wakeup = ts_after(actions[Len(actions)].trigger_time)]

\* the clock reading and the wakeups (in nanoseconds) tried by
\* compute_timeout
ProbeNow == TS(999500000)
WakeTimes ==
    { 998000000, 999000000, 999500000, 1000000000, 1000500000, 1003000000,
      1010000000, 2000500000 }
TimerKeys ==
    { [NewKey(KeyCode, CfgShort) EXCEPT !.has_wakeup = TRUE, !.ts_wakeup = TS(w)]
        : w \in WakeTimes }
    \cup { NewKey(KeyCode, CfgShort),
           [NewKey(KeyCode, CfgShort) EXCEPT !.ts_wakeup = TS(999000000)] }

Probes ==
    { [op |-> "find_key_action", key |-> NewKey(KeyCode, c), time |-> t,
       done |-> FALSE, out |-> 0]
        : c \in ProbeConfigs, t \in ElapsedTimes }
    \cup { [op |-> "handle_timeouts", keys |-> << ReleasedKey(c, t) >>,
            ts |-> ts_after(t + DEBOUNCE_MSECS), done |-> FALSE,
            out |-> << >>, hist |-> NoHist]
        : c \in ProbeConfigs, t \in ElapsedTimes }
    \cup { [op |-> "handle_timeouts", keys |-> << HeldKey(c) >>,
            ts |-> ts_after(t), done |-> FALSE, out |-> << >>,
            hist |-> NoHist]
        : c \in { x \in ProbeConfigs : x[Len(x)].type = LONG_PRESS },
          t \in ElapsedTimes }
    \cup { [op |-> "compute_timeout", keys |-> ks, ts |-> ProbeNow,
            done |-> FALSE, out |-> 0]
        : ks \in UNION { [1..n -> TimerKeys] : n \in 0..MaxKeys } }
    \cup { [op |-> "time_diff", a |-> a, b |-> b, done |-> FALSE,
            out_ts |-> 0, out_tv |-> 0]
        : a \in WakeTimes, b \in WakeTimes }

ApplyFindKeyAction ==
    /\ probe.op = "find_key_action" /\ ~probe.done
    /\ probe' = [probe EXCEPT !.done = TRUE,
                              !.out = find_key_action(probe.key, probe.time)]
    /\ UNCHANGED <<clock, keys, fds, pc, timeout, tpoll, revents, fdi, late,
                   dev, hist, loop, io>>

ApplyHandleTimeouts ==
    /\ probe.op = "handle_timeouts" /\ ~probe.done
    /\ probe' = [probe EXCEPT
                    !.done = TRUE,
                    !.out = handle_timeouts(probe.keys, probe.ts),
                    !.hist = hist_timeouts([k \in 1..1 |-> NoHist], probe.keys,
                                           [i \in Inputs |-> <<>>],
                                           probe.ts)[1]]
    /\ UNCHANGED <<clock, keys, fds, pc, timeout, tpoll, revents, fdi, late,
                   dev, hist, loop, io>>

ApplyComputeTimeout ==
    /\ probe.op = "compute_timeout" /\ ~probe.done
    /\ probe' = [probe EXCEPT !.done = TRUE,
                              !.out = compute_timeout(probe.keys, probe.ts)]
    /\ UNCHANGED <<clock, keys, fds, pc, timeout, tpoll, revents, fdi, late,
                   dev, hist, loop, io>>

\* struct timeval of a number of nanoseconds that is whole microseconds
TV(ns) ==
    [tv_sec |-> ns \div NSECS_IN_SEC,
     tv_usec |-> (ns % NSECS_IN_SEC) \div NSECS_IN_USEC]

\* time_diff_ts and time_diff_tv of the instants a and b
ApplyTimeDiff ==
    /\ probe.op = "time_diff" /\ ~probe.done
    /\ probe' = [probe EXCEPT
                    !.done = TRUE,
                    !.out_ts = time_diff_ts(TS(probe.a), TS(probe.b)),
                    !.out_tv = time_diff_tv(TV(probe.a), TV(probe.b))]
    /\ UNCHANGED <<clock, keys, fds, pc, timeout, tpoll, revents, fdi, late,
                   dev, hist, loop, io>>

NextPure ==
    \/ ApplyFindKeyAction
    \/ ApplyHandleTimeouts
    \/ ApplyComputeTimeout
    \/ ApplyTimeDiff

InitPure == Boot(FALSE, {}, {CfgDefault}) /\ probe \in Probes

\* find_key_action, handle_timeouts and compute_timeout applied once to
\* arguments drawn from Probes
SpecPure == InitPure /\ [][NextPure]_vars


\* ---------------------------------------------------------------- claims
\* the key was pressed once and has absorbed no release since, and no record
\* of it was unread when the scheduler handled it
HeldThrough(k) ==
    /\ hist[k].from = KEY_PRESSED
    /\ hist[k].quiet
    /\ ~hist[k].bounced

\* C1 (P5, held through long press): a key whose last action is Long, pressed
\* and handled by the scheduler with no release arriving, is KEY_HANDLED with
\* the Long action's command run exactly once since the press
C1_HeldThroughLongPress ==
    \A k \in DOMAIN keys :
        (keys[k].state = KEY_HANDLED /\ HeldThrough(k))
            => /\ hist[k].act = keys[k].action_count
               /\ hist[k].since = 1

\* the key has no Long action
NoLong(k) ==
    \A i \in 1..keys[k].action_count : keys[k].actions[i].type # LONG_PRESS

\* C2 (P1, debounce coalescing): for a key with no Long action whose events
\* are the press, release after 5 ms, press after 8 ms and release after
\* 50 ms of P1Script, each handled at its instant, the matcher is called at
\* most once, with elapsed = 50, and exactly once when the key is back in
\* KEY_RELEASED, so that at most one command runs
C2_DebounceCoalescing ==
    \A k \in DOMAIN keys :
        (NoLong(k) /\ dev.script = Len(P1Script))
            => /\ hist[k].nmatch <= 1
               /\ hist[k].ncmd <= 1
               /\ hist[k].nmatch = 1 => hist[k].diff = 50
               /\ (keys[k].state = KEY_RELEASED /\ Unread(fds, keys[k].code) = {})
                    => hist[k].nmatch = 1

C2_Witness ==
    /\ dev.script = Len(P1Script)
    /\ NoLong(1)
    /\ keys[1].state = KEY_RELEASED
    /\ hist[1].nmatch = 1
    /\ hist[1].diff = 50
    /\ hist[1].bounced
    /\ hist[1].ncmd = 1

\* C3 (debounce equivalence): a release followed by a press less than
\* DEBOUNCE_MSECS later, in KEY_PRESSED or KEY_HANDLED, is handled as if the
\* key had stayed pressed; a key that stays pressed has at most one command
\* run, so at most one command runs in a hold that such pairs interrupt
C3_DebounceEquivalence ==
    \A k \in DOMAIN keys : hist[k].hold <= 1

\* the instant ts is at or after the instant deadline
ts_reached(ts, deadline) ==
    \/ ts.tv_sec > deadline.tv_sec
    \/ ts.tv_sec = deadline.tv_sec /\ ts.tv_nsec >= deadline.tv_nsec

\* the Long actions of a list whose trigger_time has been reached
ReachedLong(actions, elapsed) ==
    { i \in 1..Len(actions) :
        actions[i].type = LONG_PRESS /\ actions[i].trigger_time <= elapsed }

\* C4 (P2, tiered long-press selection): among the Long actions whose
\* trigger_time <= elapsed, find_key_action returns the one with the largest
\* trigger_time; with Long@5000 and Long@10000, a release after 7000 ms runs
\* the 5000 action, one after 11000 ms the 10000 action, and so does the
\* scheduler for a key still held at or after 10000 ms
C4_TieredSelection ==
    /\ (probe.op = "find_key_action" /\ probe.done) =>
        LET actions == probe.key.actions
            reached == ReachedLong(actions, probe.time)
        IN  /\ reached # {} =>
                /\ probe.out \in reached
                /\ \A j \in reached :
                    actions[j].trigger_time <= actions[probe.out].trigger_time
            /\ (actions = CfgTiersSec /\ probe.time = 7000) => probe.out = 1
            /\ (actions = CfgTiersSec /\ probe.time = 11000) => probe.out = 2
    /\ (probe.op = "handle_timeouts" /\ probe.done
            /\ probe.keys[1].actions = CfgTiersSec) =>
        /\ (probe.keys[1].state = KEY_DEBOUNCE
                /\ probe.keys[1].tv_released = tv_after(7000))
            => (probe.hist.act = 1 /\ probe.hist.ncmd = 1)
        /\ (probe.keys[1].state = KEY_DEBOUNCE
                /\ probe.keys[1].tv_released = tv_after(11000))
            => (probe.hist.act = 2 /\ probe.hist.ncmd = 1)
        /\ (probe.keys[1].state = KEY_PRESSED
                /\ ts_reached(probe.ts, ts_after(10000)))
            => (probe.hist.act = 2 /\ probe.hist.ncmd = 1)

C4_Witness ==
    /\ probe.op = "handle_timeouts"
    /\ probe.done
    /\ probe.keys[1].actions = CfgTiersSec
    /\ probe.keys[1].state = KEY_PRESSED
    /\ probe.ts = ts_after(11000)
    /\ probe.out[1].state = KEY_HANDLED
    /\ probe.hist.act = 2

\* C5 (P3, short/long boundary): with Short@1000 and Long@5000 the matcher
\* returns the Short action for elapsed = 999, no action for every elapsed
\* in 1000..4999 - the scheduler then runs no command - and the Long action
\* for elapsed = 5000; for every action list it returns no action exactly
\* when elapsed is not below a Short trigger_time and not at or above a Long
\* trigger_time
C5_ShortLongBoundary ==
    /\ (probe.op = "find_key_action" /\ probe.done) =>
        LET actions == probe.key.actions
            elapsed == probe.time
        IN  /\ actions = CfgDefault =>
                /\ elapsed = 999 => probe.out = 1
                /\ (elapsed >= 1000 /\ elapsed <= 4999) => probe.out = 0
                /\ elapsed = 5000 => probe.out = 2
            /\ probe.out = 0 <=>
                \A i \in 1..Len(actions) :
                    /\ actions[i].type = SHORT_PRESS
                        => ~(elapsed < actions[i].trigger_time)
                    /\ actions[i].type = LONG_PRESS
                        => ~(elapsed >= actions[i].trigger_time)
            /\ probe.out # 0 =>
                (actions[probe.out].type = SHORT_PRESS
                    <=> elapsed < actions[probe.out].trigger_time)
    /\ (probe.op = "handle_timeouts" /\ probe.done
            /\ probe.keys[1].actions = CfgDefault
            /\ probe.keys[1].state = KEY_DEBOUNCE) =>
        LET elapsed == probe.hist.diff
        IN  /\ probe.keys[1].tv_released = tv_after(elapsed)
            /\ (elapsed >= 1000 /\ elapsed <= 4999)
                => (probe.hist.act = 0 /\ probe.hist.ncmd = 0
                        /\ probe.out[1].state = KEY_RELEASED)
            /\ elapsed = 999 => (probe.hist.act = 1 /\ probe.hist.ncmd = 1)
            /\ elapsed = 5000 => (probe.hist.act = 2 /\ probe.hist.ncmd = 1)

C5_Witness ==
    /\ probe.op = "handle_timeouts"
    /\ probe.done
    /\ probe.keys[1].actions = CfgDefault
    /\ probe.keys[1].state = KEY_DEBOUNCE
    /\ probe.hist.diff = 1000
    /\ probe.hist.act = 0
    /\ probe.hist.ncmd = 0


\* nanoseconds since boot of the instant trigger_time after the key's press
DeadlineNs(key, trigger_time) ==
    UsecOfTv(key.tv_pressed) * NSECS_IN_USEC + trigger_time * NSECS_IN_MSEC

\* C6: a Long action fires once its threshold is reached, even if the key
\* is still held: for every Long action of a key pressed once, with no
\* release handled or unread, once handle_timeouts has run at or after
\* pressedAt + that action's trigger_time a command has been run for the key
\* since the press
C6_LongFiresWhileHeld ==
    \A k \in DOMAIN keys : \A i \in 1..keys[k].action_count :
        (/\ keys[k].actions[i].type = LONG_PRESS
         /\ keys[k].state \in {KEY_PRESSED, KEY_HANDLED}
         /\ ~hist[k].bounced
         /\ \A e \in Unread(fds, keys[k].code) : e.value # 0
         /\ loop.ran
         /\ Grid[clock] >= DeadlineNs(keys[k], keys[k].actions[i].trigger_time))
            => hist[k].since >= 1

\* C7: handle_timeouts runs a Long action's command only if the key was held
\* for at least its trigger_time: no release of the key stamped before
\* pressedAt + trigger_time is unread on a descriptor when it does, also
\* when the loop wakes up late
C7_LongOnlyIfHeld ==
    \A k \in DOMAIN keys : ~hist[k].stale

\* C8: for every accepted configuration and every press/release sequence,
\* the Short command has been run for a press that ended exactly when its
\* release time minus its press time is below the Short trigger_time
C8_ShortIffReleasedEarly ==
    \A k \in DOMAIN keys : \A i \in 1..keys[k].action_count :
        (keys[k].actions[i].type = SHORT_PRESS /\ hist[k].held_us >= 0)
            => (hist[k].short
                    <=> hist[k].held_us
                            < keys[k].actions[i].trigger_time * USECS_IN_MSEC)

\* C9 (P4, scheduler minimality): compute_timeout returns -1 exactly when no
\* key has has_wakeup set, and otherwise max(0, min over the keys with
\* has_wakeup of ts_wakeup - now) to the millisecond - 0 when the nearest
\* deadline is not in the future, else less than one millisecond from it -
\* for every order of the keys and every mix of past and future deadlines
C9_SchedulerMinimality ==
    (probe.op = "compute_timeout" /\ probe.done) =>
        LET ks == probe.keys
            armed == { i \in 1..Len(ks) : ks[i].has_wakeup }
        IN  IF armed = {} THEN probe.out = -1
            ELSE LET left == { NsecOfTs(ks[i].ts_wakeup) - NsecOfTs(probe.ts)
                                    : i \in armed }
                     nearest == CHOOSE d \in left : \A e \in left : d <= e
                 IN  /\ probe.out >= 0
                     /\ nearest <= 0 => probe.out = 0
                     /\ nearest > 0 =>
                            /\ probe.out * NSECS_IN_MSEC > nearest - NSECS_IN_MSEC
                            /\ probe.out * NSECS_IN_MSEC < nearest + NSECS_IN_MSEC

C9_Witness ==
    /\ probe.op = "compute_timeout"
    /\ probe.done
    /\ Len(probe.keys) = MaxKeys
    /\ probe.keys[1].has_wakeup /\ probe.keys[1].ts_wakeup = TS(1010000000)
    /\ probe.keys[2].has_wakeup /\ probe.keys[2].ts_wakeup = TS(1003000000)
    /\ ~probe.keys[3].has_wakeup
    /\ probe.out = 4

\* C10 (ordering within one wakeup): whenever the loop reads descriptors,
\* handle_timeouts has run in that iteration after poll returned, also when
\* poll returned for readiness; and it left no wakeup armed that had run out
\* when poll returned
C10_TimeoutsBeforeInput ==
    /\ pc = "input" => loop.ran
    /\ ~loop.missed

C10_Witness ==
    /\ pc = "input"
    /\ loop.ran
    /\ fdi = 1
    /\ fds[1] # <<>>
    /\ hist[1].nmatch = 1
    /\ ~hist[1].quiet
    /\ keys[1].state = KEY_HANDLED

\* ------------------------------------------ the input path on its own
\* a second configured key code (-s/-l <key>)
OtherCode == 30
\* the struct input_event tried: EV_SYN, EV_KEY and EV_REL records, for
\* both configured codes and an unconfigured one, value 0 (released),
\* 1 (pressed) and 2 (autorepeat)
EventTypes == {0, 1, 2}
EventCodes == {KeyCode, OtherCode, 116}
EventValues == {0, 1, 2}
EventTimes == { tv_after(5), tv_after(70), tv_after(950) }
InputEvents ==
    { [time |-> t, type |-> ty, code |-> c, value |-> v]
        : t \in EventTimes, ty \in EventTypes, c \in EventCodes,
          v \in EventValues }
KeyEvents == { e \in InputEvents : e.type = 1 /\ e.code = KeyCode }
KeyStates == {KEY_RELEASED, KEY_PRESSED, KEY_DEBOUNCE, KEY_HANDLED}
KeyConfigs == { CfgShort, CfgShortLong, CfgTiers }

\* a key in state st as handle_key and handle_timeouts leave it: pressed at
\* PressedAt; in KEY_PRESSED with the wakeup of its last action if Long; in
\* KEY_DEBOUNCE released 3 ms later; in KEY_RELEASED after that debounce; in
\* KEY_HANDLED after the wakeup of its last action
KeyIn(code, actions, st) ==
    LET last == actions[Len(actions)]
        key == [NewKey(code, actions) EXCEPT !.state = st,
                                             !.tv_pressed = PressedAt]
    IN  CASE st = KEY_PRESSED ->
                IF last.type = LONG_PRESS
                THEN [key EXCEPT !.has_wakeup = TRUE,
                                 !.ts_wakeup = ts_after(last.trigger_time)]
                ELSE key
          [] st = KEY_DEBOUNCE ->
                [key EXCEPT !.tv_released = tv_after(3),
                            !.has_wakeup = TRUE,
                            !.ts_wakeup = ts_after(3 + DEBOUNCE_MSECS)]
          [] st = KEY_RELEASED ->
                [key EXCEPT !.tv_released = tv_after(3),
                            !.ts_wakeup = ts_after(3 + DEBOUNCE_MSECS)]
          [] st = KEY_HANDLED ->
                [key EXCEPT !.tv_released = tv_after(last.trigger_time),
                            !.ts_wakeup = ts_after(last.trigger_time)]

\* the key tables tried: the key of KeyCode alone or followed by the key
\* of OtherCode
KeyTables ==
    { << KeyIn(KeyCode, c, st) >> : c \in KeyConfigs, st \in KeyStates }
    \cup { << KeyIn(KeyCode, c, st), KeyIn(OtherCode, CfgShortLong, st2) >>
            : c \in KeyConfigs, st \in KeyStates, st2 \in KeyStates }

KeyProbes ==
    { [op |-> "handle_key", event |-> e, key |-> KeyIn(KeyCode, c, st),
       done |-> FALSE, out |-> KeyIn(KeyCode, c, st)]
        : e \in KeyEvents, c \in KeyConfigs, st \in KeyStates }
    \cup { [op |-> "handle_input_event", event |-> e, keys |-> ks,
             done |-> FALSE, out |-> ks,
             hist |-> [k \in DOMAIN ks |-> NoHist]]
            : e \in InputEvents, ks \in KeyTables }

\* the clock runs on until the record is handled
TickProbe ==
    /\ probe.op \in {"handle_key", "handle_input_event"} /\ ~probe.done
    /\ clock < Len(Grid)
    /\ clock' = clock + 1
    /\ UNCHANGED <<keys, fds, pc, timeout, tpoll, revents, fdi, late, dev,
                   hist, loop, probe, io>>

ApplyHandleKey ==
    /\ probe.op = "handle_key" /\ ~probe.done
    /\ probe' = [probe EXCEPT !.done = TRUE,
                              !.out = handle_key(probe.event, probe.key)]
    /\ UNCHANGED <<clock, keys, fds, pc, timeout, tpoll, revents, fdi, late,
                   dev, hist, loop, io>>

ApplyHandleInputEvent ==
    /\ probe.op = "handle_input_event" /\ ~probe.done
    /\ probe' = [probe EXCEPT
                    !.done = TRUE,
                    !.out = handle_input_event(probe.event, probe.keys),
                    !.hist = hist_input(probe.hist, << probe.event >>,
                                        probe.keys)]
    /\ UNCHANGED <<clock, keys, fds, pc, timeout, tpoll, revents, fdi, late,
                   dev, hist, loop, io>>

NextKeys ==
    \/ TickProbe
    \/ ApplyHandleKey
    \/ ApplyHandleInputEvent

InitKeys == Boot(FALSE, {}, {CfgDefault}) /\ probe \in KeyProbes

\* handle_key and handle_input_event applied once, at any clock reading, to
\* arguments drawn from KeyProbes
SpecKeys == InitKeys /\ [][NextKeys]_vars

\* --------------------------------------------------- the command line
\* the options main() is given, at most MaxArgs of them: -i <file>,
\* -s/-l <key>, -a <command>, -t <time ms>
MaxArgs == 7
Options ==
    { [opt |-> "i", arg |-> 1], [opt |-> "a", arg |-> 1],
      [opt |-> "t", arg |-> 50] }
    \cup { [opt |-> c, arg |-> code]
            : c \in {"s", "l"}, code \in {KeyCode, OtherCode} }

\* cur_action->action = NULL
NULL == "NULL"
\* struct action *cur_action = NULL: no key, no action
NoAction == [k |-> 0, a |-> 0]

\* main()'s locals before the first getopt_long
ArgsStart ==
    [op |-> "main", pc |-> "getopt", argv |-> << >>, keys |-> << >>,
     cur_action |-> NoAction, input_count |-> 0, debug |-> 0, status |-> 0]

\* xassert fails: the message is printed and the process exits with
\* EXIT_FAILURE
xassert_failed(m) == [m EXCEPT !.pc = "exit", !.status = 1]

\* cur_action->action, NULL while it is not set
cur_command(m) ==
    m.keys[m.cur_action.k].actions[m.cur_action.a].action

\* add_short_action that looks for no Short action in the key
short_allowed_unchecked(key) == TRUE

\* add_short_action's xassert: can only have one short key
short_allowed(key) ==
    \A i \in 1..key.action_count : key.actions[i].type # SHORT_PRESS

\* case 'i'
opt_input(m) == [m EXCEPT !.input_count = @ + 1]

\* case 's', case 'l'
opt_key(m, c, code) ==
    IF m.cur_action # NoAction /\ cur_command(m) = NULL
    THEN xassert_failed(m)
    ELSE LET found == key_from(m.keys, code, 1)
             ks == IF found = 0 THEN Append(m.keys, NewKey(code, << >>))
                   ELSE m.keys
             k == IF found = 0 THEN Len(ks) ELSE found
             action ==
                IF c = "s"
                THEN Action(SHORT_PRESS, DEFAULT_SHORT_PRESS_MSECS, NULL)
                ELSE Action(LONG_PRESS, DEFAULT_LONG_PRESS_MSECS, NULL)
         IN  IF c = "s" /\ ~short_allowed(ks[k])
             THEN xassert_failed(m)
             ELSE [m EXCEPT
                    !.keys = [ks EXCEPT
                                ![k].actions = Append(@, action),
                                ![k].action_count = @ + 1],
                    !.cur_action = [k |-> k, a |-> ks[k].action_count + 1]]

\* case 'a'
opt_action(m, command) ==
    IF m.cur_action = NoAction THEN xassert_failed(m)
    ELSE [m EXCEPT
            !.keys[m.cur_action.k].actions[m.cur_action.a].action = command]

\* case 't' that takes a time only while the action has no command yet
opt_time_before_command(m, time) ==
    IF m.cur_action = NoAction \/ cur_command(m) # NULL
    THEN xassert_failed(m)
    ELSE [m EXCEPT
            !.keys[m.cur_action.k].actions[m.cur_action.a].trigger_time = time]

\* case 't'
opt_time(m, time) ==
    IF m.cur_action = NoAction THEN xassert_failed(m)
    ELSE [m EXCEPT
            !.keys[m.cur_action.k].actions[m.cur_action.a].trigger_time = time]

\* a comparison by trigger_time alone
sort_actions_by_time(a1, a2) ==
    IF a1.trigger_time < a2.trigger_time THEN -1
    ELSE IF a1.trigger_time > a2.trigger_time THEN 1
    ELSE 0

sort_actions_compare(a1, a2) ==
    IF a1.type = SHORT_PRESS THEN -1
    ELSE IF a2.type = SHORT_PRESS THEN 1
    ELSE IF a1.trigger_time < a2.trigger_time THEN -1
    ELSE IF a1.trigger_time > a2.trigger_time THEN 1
    ELSE 0

\* what qsort may leave of a key's actions: they are in the comparison's
\* order, and actions that compare equal are in any order
sort_actions(key) ==
    LET n == key.action_count
        perms == { p \in [1..n -> 1..n] : \A i, j \in 1..n :
                                            p[i] = p[j] => i = j }
        sorted == { [i \in 1..n |-> key.actions[p[i]]] : p \in perms }
    IN  { [key EXCEPT !.actions = q]
            : q \in { x \in sorted : \A i \in 1..(n - 1) :
                        sort_actions_compare(x[i], x[i + 1]) <= 0 } }

\* one turn of the getopt_long loop for option o
Getopt(o, m) ==
    /\ probe.op = "main" /\ probe.pc = "getopt"
    /\ Len(probe.argv) < MaxArgs
    /\ probe' = [m EXCEPT !.argv = Append(probe.argv, o)]
    /\ UNCHANGED <<clock, keys, fds, pc, timeout, tpoll, revents, fdi, late,
                   dev, hist, loop, io>>

GetoptInput ==
    \E o \in Options : o.opt = "i" /\ Getopt(o, opt_input(probe))
GetoptKey ==
    \E o \in Options :
        o.opt \in {"s", "l"} /\ Getopt(o, opt_key(probe, o.opt, o.arg))
GetoptAction ==
    \E o \in Options : o.opt = "a" /\ Getopt(o, opt_action(probe, "cmd"))
GetoptTime ==
    \E o \in Options : o.opt = "t" /\ Getopt(o, opt_time(probe, o.arg))

\* getopt_long returns -1: the configuration is validated and every key's
\* actions are sorted
EndOfOptions ==
    /\ probe.op = "main" /\ probe.pc = "getopt"
    /\ IF \/ probe.input_count = 0
          \/ ~(Len(probe.keys) > 0 \/ probe.debug > 1)
          \/ (probe.cur_action # NoAction /\ cur_command(probe) = NULL)
       THEN probe' = xassert_failed(probe)
       ELSE \E ks \in [1..Len(probe.keys) -> UNION { sort_actions(
                                probe.keys[k]) : k \in 1..Len(probe.keys) }] :
                /\ \A k \in 1..Len(probe.keys) :
                        ks[k] \in sort_actions(probe.keys[k])
                /\ probe' = [probe EXCEPT !.pc = "loop", !.keys = ks]
    /\ UNCHANGED <<clock, keys, fds, pc, timeout, tpoll, revents, fdi, late,
                   dev, hist, loop, io>>

NextArgs ==
    \/ GetoptInput
    \/ GetoptKey
    \/ GetoptAction
    \/ GetoptTime
    \/ EndOfOptions

InitArgs == Boot(FALSE, {}, {CfgDefault}) /\ probe = ArgsStart

\* main() up to the dispatch loop, for every command line of at most
\* MaxArgs options drawn from Options
SpecArgs == InitArgs /\ [][NextArgs]_vars

\* ------------------------------------------------------------------ C11
\* key k's wakeup is armed and its deadline has passed
Expired(k) ==
    keys[k].has_wakeup /\ NsecOfTs(keys[k].ts_wakeup) <= Grid[clock]

\* C11: a key whose wakeup is armed and whose deadline has passed is, while
\* the loop keeps being scheduled, eventually processed by handle_timeouts
\* or given a later wakeup by an input event, however poll returned; an
\* interrupted poll goes back to computing the timeout and leaves the key
\* table as it was.
C11_LateDeadlineHandled ==
    /\ \A k \in 1..1 : Expired(k) ~> ~Expired(k)
    /\ [][PollInterrupted => keys' = keys /\ pc' = "compute"]_vars

\* handle_timeouts has disarmed the long-press wakeup of a held key
\* milliseconds after its deadline
C11_Witness ==
    /\ hist[1].nmatch > 0
    /\ hist[1].from = KEY_PRESSED
    /\ hist[1].diff > keys[1].actions[keys[1].action_count].trigger_time
    /\ keys[1].state = KEY_HANDLED
    /\ ~keys[1].has_wakeup
\* ------------------------------------------------------------------ C12
\* the message print_key is called with at verbosity debug, "" for none
input_event_message(event, ks, debug) ==
    IF event.type # 1
    THEN IF debug > 2 THEN "non-keyboard event ignored" ELSE ""
    ELSE IF key_from(ks, event.code, 1) = 0
    THEN IF debug > 1 THEN "ignored" ELSE ""
    ELSE "processing"

\* the fields of struct key that handle_key and handle_timeouts write
KeyFields(key) ==
    << key.state, key.tv_pressed, key.tv_released, key.has_wakeup,
       key.ts_wakeup >>

\* C12 (P6): handle_input_event for a record whose type is not 1, or whose
\* code no configured key has, leaves state, tv_pressed, tv_released,
\* has_wakeup and ts_wakeup of every key as they were and calls neither the
\* matcher nor a command, at every verbosity; a record for a configured
\* code changes at most the key of that code.
C12_IgnoredEventsNoEffect ==
    (probe.op = "handle_input_event" /\ probe.done) =>
        LET e == probe.event
            k == key_from(probe.keys, e.code, 1)
        IN  /\ Len(probe.out) = Len(probe.keys)
            /\ \A i \in DOMAIN probe.keys :
                    /\ probe.hist[i].nmatch = 0
                    /\ probe.hist[i].ncmd = 0
                    /\ (e.type # 1 \/ i # k) => probe.out[i] = probe.keys[i]
            /\ (e.type # 1 \/ k = 0) =>
                    \A debug \in 0..4 :
                        /\ input_event_message(e, probe.keys, debug)
                                # "processing"
                        /\ probe.out = probe.keys

\* a press record of an unconfigured code was handled with a released key
\* and a held key in the table
C12_Witness ==
    /\ probe.op = "handle_input_event" /\ probe.done
    /\ probe.event.type = 1 /\ probe.event.value = 1
    /\ key_from(probe.keys, probe.event.code, 1) = 0
    /\ Len(probe.keys) = 2
    /\ probe.keys[1].state = KEY_RELEASED
    /\ probe.keys[2].state = KEY_PRESSED
\* ------------------------------------------------------------------ C13
\* the loop's decision for the input file of slot fdi as the claims state
\* it: outside test mode the file's own path is opened again into the same
\* slot, no other slot is touched and the loop goes on; in test mode the
\* process exits with status 0 and nothing is reopened
ReopenOrExit ==
    IF io.test_mode
    THEN /\ io'.exited /\ io'.status = 0 /\ pc' = "exit"
         /\ io'.fd = io.fd /\ io'.opened = io.opened
    ELSE /\ ~io'.exited /\ pc' \in {"input", "compute"}
         /\ io'.fd[fdi] = io.fd[fdi] + 1
         /\ io'.opened[fdi] = io.filename[fdi]
         /\ io'.filename = io.filename
         /\ \A j \in Inputs \ {fdi} :
                io'.fd[j] = io.fd[j] /\ io'.opened[j] = io.opened[j]

\* C13 (P7): when poll reports revents without POLLIN for an input file,
\* the loop outside test mode reopens that same file (same path, same
\* pollfd slot) and keeps running; in test mode the process exits with
\* status 0 and reopens nothing.
C13_HangupReopenOrExit ==
    [][(HandleInput /\ revents[fdi] = "POLLHUP") => ReopenOrExit]_vars

\* the second input file hung up outside test mode and was reopened into
\* its slot; the loop is back at compute_timeout
C13_Witness ==
    /\ ~io.test_mode /\ ~io.exited
    /\ io.cause[2] = "hup"
    /\ io.fd[2] = 2 /\ io.fd[1] = 1
    /\ pc = "compute"

\* ------------------------------------------------------------------ C14
\* C14: a read error (a negative read result other than would-block) and a
\* byte count that is not a multiple of the record size lead to the same
\* decision as a hangup: reopen outside test mode, clean exit in test mode.
C14_ReadErrorLikeHangup ==
    [][(/\ HandleInput
        /\ revents[fdi] \in {POLLIN, "POLLIN|POLLHUP"}
        /\ input_failed(fds[fdi], dev.fault[fdi])) => ReopenOrExit]_vars
\* ------------------------------------------------------------------ C15
\* the trigger times of every action of a key table
TriggerTimes(ks) ==
    [k \in 1..Len(ks) |->
        [a \in 1..ks[k].action_count |-> ks[k].actions[a].trigger_time]]

\* startup fails with a non-zero status and no trigger_time is changed
FailsUnchanged ==
    /\ probe'.pc = "exit" /\ probe'.status # 0
    /\ TriggerTimes(probe'.keys) = TriggerTimes(probe.keys)

\* C15 as claimed: -t is accepted only after the -s/-l that starts an
\* action and before that action's -a; where it comes before any -s/-l, or
\* after the -a of the current action, startup fails with a non-zero
\* status and no trigger_time is changed.
C15_TimeOnlyAfterKey ==
    [][GetoptTime =>
        IF probe.cur_action # NoAction /\ cur_command(probe) = NULL
        THEN probe'.pc = "getopt"
        ELSE FailsUnchanged]_vars

\* C15 as amended: -t is accepted wherever an -s/-l comes before it, also
\* after the -a of the current action or another -t, and sets the
\* trigger_time of the action started last and of no other; where it
\* comes before any -s/-l, startup fails with a non-zero status and no
\* trigger_time is changed.
C15_TimeAfterAnyKey ==
    [][GetoptTime =>
        IF \E j \in 1..Len(probe.argv) : probe.argv[j].opt \in {"s", "l"}
        THEN /\ probe'.pc = "getopt"
             /\ probe'.cur_action = probe.cur_action
             /\ \A k \in 1..Len(probe.keys) :
                    \A a \in 1..probe.keys[k].action_count :
                        TriggerTimes(probe'.keys)[k][a] =
                            IF [k |-> k, a |-> a] = probe.cur_action
                            THEN probe'.argv[Len(probe'.argv)].arg
                            ELSE TriggerTimes(probe.keys)[k][a]
        ELSE FailsUnchanged]_vars

\* -t was taken after the -a of the action it belongs to and changed that
\* action's trigger_time
C15_Witness ==
    /\ probe.op = "main" /\ probe.pc = "getopt"
    /\ Len(probe.argv) = 3
    /\ probe.argv[1] = [opt |-> "l", arg |-> KeyCode]
    /\ probe.argv[2].opt = "a"
    /\ probe.argv[3].opt = "t"
    /\ probe.keys[1].actions[1].trigger_time = probe.argv[3].arg
    /\ probe.keys[1].actions[1].action # NULL

\* ------------------------------------------------------------------ C16
\* the configuration was accepted: main() has reached its dispatch loop
Accepted == probe.op = "main" /\ probe.pc = "loop"

\* the Short action of every key, if any, is its first action
ShortFirst ==
    \A k \in 1..Len(probe.keys) :
        \A a \in 1..probe.keys[k].action_count :
            probe.keys[k].actions[a].type = SHORT_PRESS => a = 1

\* C16 as claimed: once the configuration is accepted, each key's action
\* list has its Short action (if any) at index 0, followed by its Long
\* actions in strictly ascending trigger_time.
C16_SortedStrictly ==
    Accepted =>
        /\ ShortFirst
        /\ \A k \in 1..Len(probe.keys) :
                \A a, b \in 1..probe.keys[k].action_count :
                    (/\ a < b
                     /\ probe.keys[k].actions[a].type = LONG_PRESS
                     /\ probe.keys[k].actions[b].type = LONG_PRESS)
                    => probe.keys[k].actions[a].trigger_time
                        < probe.keys[k].actions[b].trigger_time

\* C16 as amended: once the configuration is accepted, each key's action
\* list has its Short action (if any) at index 0, followed by its Long
\* actions in ascending trigger_time, where Long actions of the same
\* trigger_time are accepted and stand next to each other.
C16_Sorted ==
    Accepted =>
        /\ ShortFirst
        /\ \A k \in 1..Len(probe.keys) :
                \A a, b \in 1..probe.keys[k].action_count :
                    (/\ a < b
                     /\ probe.keys[k].actions[a].type = LONG_PRESS
                     /\ probe.keys[k].actions[b].type = LONG_PRESS)
                    => probe.keys[k].actions[a].trigger_time
                        <= probe.keys[k].actions[b].trigger_time

\* -i .. -l <key> -a .. -l <key> -t 50 -a .. was accepted and its actions
\* sorted to Long@50, Long@DEFAULT_LONG_PRESS_MSECS
C16_Witness ==
    /\ Accepted
    /\ Len(probe.keys) = 1
    /\ probe.keys[1].action_count = 2
    /\ probe.argv[Len(probe.argv) - 1].opt = "t"
    /\ probe.keys[1].actions[1].type = LONG_PRESS
    /\ probe.keys[1].actions[1].trigger_time = 50
    /\ probe.keys[1].actions[2].trigger_time = DEFAULT_LONG_PRESS_MSECS

\* ------------------------------------------------------------------ C17
\* the Short actions of key k
ShortActions(k) ==
    { a \in 1..probe.keys[k].action_count :
        probe.keys[k].actions[a].type = SHORT_PRESS }

\* C17: a key has at most one Short action: a second -s for the code of a
\* key that has one fails startup, while any number of -l for one code is
\* accepted.
C17_OneShortPerKey ==
    /\ [](probe.op = "main" =>
            \A k \in 1..Len(probe.keys) : Cardinality(ShortActions(k)) <= 1)
    /\ [][GetoptKey =>
            LET o == probe'.argv[Len(probe'.argv)]
                k == key_from(probe.keys, o.arg, 1)
                pending == probe.cur_action # NoAction
                            /\ cur_command(probe) = NULL
            IN  /\ (o.opt = "s" /\ k # 0 /\ ShortActions(k) # {})
                        => probe'.pc = "exit" /\ probe'.status # 0
                /\ (o.opt = "l" /\ ~pending)
                        => /\ probe'.pc = "getopt"
                           /\ probe'.keys[probe'.cur_action.k].code = o.arg
                           /\ probe'.keys[probe'.cur_action.k]
                                .actions[probe'.cur_action.a].type
                                    = LONG_PRESS]_vars

\* a key with a Short action and two Long ones was accepted
C17_Witness ==
    /\ Accepted
    /\ \E k \in 1..Len(probe.keys) :
            /\ Cardinality(ShortActions(k)) = 1
            /\ probe.keys[k].action_count = 3
\* ------------------------------------------------------------------ C18
\* handle_key was applied to a key in one of the states sts and a record
\* that is a press (pressed) or a release
Handled(sts, pressed) ==
    /\ probe.op = "handle_key" /\ probe.done
    /\ probe.key.state \in sts
    /\ (probe.event.value # 0) = pressed

LastAction(key) == key.actions[key.action_count]

\* C18: a press handled in KEY_RELEASED or KEY_DEBOUNCE puts the key in
\* KEY_PRESSED; tv_pressed becomes the record's time only from
\* KEY_RELEASED and stays as it was from KEY_DEBOUNCE; if the key's last
\* action is Long, has_wakeup is true and ts_wakeup is tv_pressed plus that
\* action's trigger_time, otherwise has_wakeup is false.
C18_PressArmsLongWakeup ==
    Handled({KEY_RELEASED, KEY_DEBOUNCE}, TRUE) =>
        /\ probe.out.state = KEY_PRESSED
        /\ probe.out.tv_pressed =
                IF probe.key.state = KEY_RELEASED THEN probe.event.time
                ELSE probe.key.tv_pressed
        /\ probe.out.tv_released = probe.key.tv_released
        /\ IF LastAction(probe.key).type = LONG_PRESS
           THEN /\ probe.out.has_wakeup
                /\ NsecOfTs(probe.out.ts_wakeup) =
                        UsecOfTv(probe.out.tv_pressed) * NSECS_IN_USEC
                        + LastAction(probe.key).trigger_time * NSECS_IN_MSEC
           ELSE ~probe.out.has_wakeup

\* a press was handled in KEY_DEBOUNCE for a key whose last action is Long
C18_Witness ==
    /\ Handled({KEY_DEBOUNCE}, TRUE)
    /\ LastAction(probe.key).type = LONG_PRESS
    /\ probe.out.state = KEY_PRESSED
    /\ probe.out.has_wakeup
    /\ probe.out.ts_wakeup # probe.key.ts_wakeup

\* ------------------------------------------------------------------ C19
\* C19: a release handled in KEY_PRESSED puts the key in KEY_DEBOUNCE with
\* tv_released the record's time and a wakeup exactly DEBOUNCE_MSECS after
\* the clock reading at the time the record is handled, which replaces any
\* long-press wakeup; tv_pressed stays as it was.
C19_ReleaseArmsDebounce ==
    Handled({KEY_PRESSED}, FALSE) =>
        /\ probe.out.state = KEY_DEBOUNCE
        /\ probe.out.tv_released = probe.event.time
        /\ probe.out.tv_pressed = probe.key.tv_pressed
        /\ probe.out.has_wakeup
        /\ NsecOfTs(probe.out.ts_wakeup) =
                Grid[clock] + DEBOUNCE_MSECS * NSECS_IN_MSEC

\* a release was handled, some instants after the daemon started, for a
\* held key that had its long-press wakeup armed
C19_Witness ==
    /\ Handled({KEY_PRESSED}, FALSE)
    /\ clock > 1
    /\ probe.key.has_wakeup
    /\ probe.out.state = KEY_DEBOUNCE
    /\ probe.out.ts_wakeup # probe.key.ts_wakeup

\* ------------------------------------------------------------------ C20
\* C20: a release in KEY_RELEASED, a release in KEY_DEBOUNCE, a press in
\* KEY_PRESSED and a press in KEY_HANDLED change none of state, tv_pressed,
\* tv_released, has_wakeup and ts_wakeup.
C20_IgnoredTransitions ==
    (\/ Handled({KEY_RELEASED, KEY_DEBOUNCE}, FALSE)
     \/ Handled({KEY_PRESSED, KEY_HANDLED}, TRUE))
        => KeyFields(probe.out) = KeyFields(probe.key)

\* an autorepeat record was handled for a held key with its long-press
\* wakeup armed
C20_Witness ==
    /\ Handled({KEY_PRESSED}, TRUE)
    /\ probe.event.value = 2
    /\ probe.key.has_wakeup
    /\ probe.out = probe.key
\* ------------------------------------------------------------------ C21
\* what the claim says handle_timeouts does to key k at the clock reading
\* of this step
TimeoutHandled(k) ==
    /\ keys'[k].tv_released =
            IF keys[k].state # KEY_DEBOUNCE THEN time_ts2tv(time_gettime, 0)
            ELSE keys[k].tv_released
    /\ keys'[k].tv_pressed = keys[k].tv_pressed
    /\ hist'[k].nmatch = hist[k].nmatch + 1
    /\ hist'[k].diff * USECS_IN_MSEC <=
            UsecOfTv(keys'[k].tv_released) - UsecOfTv(keys'[k].tv_pressed)
    /\ hist'[k].diff * USECS_IN_MSEC + USECS_IN_MSEC >
            UsecOfTv(keys'[k].tv_released) - UsecOfTv(keys'[k].tv_pressed)
    /\ hist'[k].ncmd \in {hist[k].ncmd, hist[k].ncmd + 1}
    /\ ~keys'[k].has_wakeup
    /\ keys'[k].state = IF keys[k].state = KEY_DEBOUNCE THEN KEY_RELEASED
                        ELSE KEY_HANDLED

\* C21: handle_timeouts, for every key that has a wakeup whose deadline is
\* not after the clock and for no other key, sets tv_released to the clock
\* only if the key is not in KEY_DEBOUNCE, runs the matcher once with the
\* time from tv_pressed to tv_released, runs at most one command, clears
\* has_wakeup and moves KEY_DEBOUNCE to KEY_RELEASED and every other state
\* to KEY_HANDLED; a key without an expired wakeup is left as it was.
C21_TimeoutsOnlyExpired ==
    [][HandleTimeouts =>
        \A k \in 1..Len(keys) :
            IF keys[k].has_wakeup
               /\ NsecOfTs(keys[k].ts_wakeup) <= Grid[clock]
            THEN TimeoutHandled(k)
            ELSE keys'[k] = keys[k] /\ hist'[k].nmatch = hist[k].nmatch]_vars
\* ------------------------------------------------------------------ C22
\* C22: whenever a wakeup expires for a key in KEY_PRESSED, the matcher
\* returns the key's last Long action, the one of the longest threshold:
\* never no action and never a Long action of a shorter threshold, after
\* any sequence of presses, releases and debounced presses.
C22_OneTimerSuffices ==
    \A k \in 1..Len(keys) :
        (hist[k].nmatch > 0 /\ hist[k].from = KEY_PRESSED)
            => /\ hist[k].act = keys[k].action_count
               /\ keys[k].actions[hist[k].act].type = LONG_PRESS
\* ------------------------------------------------------------------ C23
\* C23: time_diff_ts and time_diff_tv return the signed difference a - b in
\* whole milliseconds with the borrow across the seconds boundary: for two
\* normalized timestamps the result is the exact difference truncated to
\* milliseconds, so it is the same for two pairs of the same exact
\* difference whether or not a's sub-second field is below b's.
C23_TimeDiffExact ==
    (probe.op = "time_diff" /\ probe.done) =>
        LET exact == probe.a - probe.b
            \* truncated toward zero, or toward minus infinity
            whole == { CDiv(exact, NSECS_IN_MSEC), exact \div NSECS_IN_MSEC }
        IN  probe.out_ts \in whole /\ probe.out_tv \in whole
\* ------------------------------------------------------------------ C24
\* C24: in every reachable state, has_wakeup of a key is true if and only
\* if the key is in KEY_DEBOUNCE, or in KEY_PRESSED with a Long last
\* action; a key in KEY_RELEASED or KEY_HANDLED has no pending wakeup.
C24_WakeupIffWaiting ==
    \A k \in 1..Len(keys) :
        keys[k].has_wakeup <=>
            \/ keys[k].state = KEY_DEBOUNCE
            \/ /\ keys[k].state = KEY_PRESSED
               /\ keys[k].actions[keys[k].action_count].type = LONG_PRESS

\* a key whose long-press wakeup has fired was released and pressed again,
\* and its wakeup is armed anew
C24_Witness ==
    /\ hist[1].nmatch > 0
    /\ hist[1].from = KEY_PRESSED
    /\ keys[1].state = KEY_PRESSED
    /\ keys[1].has_wakeup
    /\ dev.n >= 3
\* ------------------------------------------------------------------ C25
\* C25: between a key's leaving KEY_RELEASED and its next return to
\* KEY_RELEASED at most one command is run for it, and no command is run
\* for a key that has had no press since it was last in KEY_RELEASED.
C25_OneCommandPerPress ==
    /\ [](\A k \in 1..Len(keys) : hist[k].since <= 1)
    /\ [][\A k \in 1..Len(keys) :
            hist'[k].ncmd # hist[k].ncmd =>
                /\ hist'[k].ncmd = hist[k].ncmd + 1
                /\ keys[k].state \in {KEY_PRESSED, KEY_DEBOUNCE}
                /\ hist[k].since = 0]_vars

\* two presses of the key have each run their command and the key is back
\* in KEY_RELEASED
C25_Witness ==
    /\ hist[1].ncmd = 2
    /\ hist[1].since = 1
    /\ keys[1].state = KEY_RELEASED
\* ------------------------------------------------------------------ C26
\* C26: whenever the matcher is invoked, tv_released is not earlier than
\* tv_pressed and the elapsed time it is given is not negative, for every
\* interleaving of the events of several input files that report the same
\* key code, the files being read in registration order and not in the
\* order of the timestamps.
C26_NonNegativeElapsed ==
    [][HandleTimeouts =>
        \A k \in 1..Len(keys) :
            wakeup_expired(keys[k], time_gettime) =>
                LET key == wakeup_released(keys[k], time_gettime)
                IN  /\ UsecOfTv(key.tv_released) >= UsecOfTv(key.tv_pressed)
                    /\ wakeup_diff(keys[k], time_gettime) >= 0]_vars
====
